---- MODULE Spec2Model ----
(***************************************************************************)
(* Model of pyChemInfo.py: the two online database backends (PubChem,      *)
(* ChemSpiderOD), the coordinator ChemInfo.search and the command line     *)
(* driver main().  The remote services are the environment: every          *)
(* urllib.request.urlopen / ET.parse pair either raises or yields a parsed *)
(* payload drawn from a bounded set.                                       *)
(***************************************************************************)
EXTENDS Integers, Sequences, FiniteSets, TLC

VARIABLES
  entry,      \* which public operation the client invoked
  argv,       \* the parsed command line of main()
  pc,         \* position of the (single, sequential) thread of control
  exc,        \* name of the exception that is propagating ("" if none)
  exitCode,   \* exit status of the process (NotExited while running)
  stdout,     \* lines printed so far
  file,       \* the file at the output path
  nameIdx,    \* main: index of the name being processed
  compounds,  \* main: local variable compounds
  overwrote,  \* main: an earlier, different search result was replaced
  query,      \* ChemInfo.search: parameter query
  first,      \* ChemInfo.search: parameter first
  odbIdx,     \* ChemInfo.search: index of the backend being iterated
  acc,        \* ChemInfo.search: local variable compounds
  results,    \* what each backend's search returned, in call order
  iter,       \* backend search: the elements the for loop has still to visit
  bcompounds, \* backend search: local variable compounds
  payload,    \* the parsed payload of the most recent detail request
  response,   \* backend search: the ids of the search response
  detailCalls,\* backend search: the ids it requested details for, in order
  ret         \* value returned to the client by the entry operation

vars == <<entry, argv, pc, exc, exitCode, stdout, file, nameIdx, compounds,
          overwrote, query, first, odbIdx, acc, results, iter, bcompounds,
          payload, response, detailCalls, ret>>

(***************************************************************************)
(* Bounds                                                                  *)
(***************************************************************************)
MaxIds   == 2   \* ids in one search response
MaxProps == 2   \* entries in one detail payload (direct detail calls)
MaxNames == 2   \* names given with -n

(***************************************************************************)
(* Python values                                                           *)
(***************************************************************************)
None   == "<None>"     \* the None object (Element.text of an empty element)
Absent == "<absent>"   \* no such element in the tree

NotExited == 0 - 1

Ids   == {"1", "2"}
Texts == {"v1", "v2"}

RECURSIVE SeqsUpTo(_, _)
SeqsUpTo(S, n) ==
  IF n = 0 THEN {<<>>}
  ELSE LET shorter == SeqsUpTo(S, n - 1)
       IN shorter \cup {Append(s, x) : s \in {t \in shorter : Len(t) = n - 1}, x \in S}

RECURSIVE Reverse(_)
Reverse(s) == IF s = <<>> THEN <<>> ELSE Append(Reverse(Tail(s)), Head(s))

RECURSIVE Flatten(_)
Flatten(ss) == IF ss = <<>> THEN <<>> ELSE Head(ss) \o Flatten(Tail(ss))

Last(s) == s[Len(s)]

\* "%s" % value
Fmt(v) == IF v = None THEN "None" ELSE v

(***************************************************************************)
(* class Compound                                                          *)
(***************************************************************************)
Compound == [imageUrl |-> "", formula |-> "", smiles |-> "", name |-> "",
             csid |-> "", molWeight |-> "", database |-> ""]

(***************************************************************************)
(* The registry: AbstractOnlineDatabase.__subclasses__()                   *)
(***************************************************************************)
getOnlineDatabases == <<"PubChem", "ChemSpider">>

(***************************************************************************)
(* Remote environment                                                      *)
(***************************************************************************)
\* urlopen raises URLError, ET.parse raises ParseError
RemoteErrors == {"URLError", "ParseError"}

\* the text of the children of the root of a search response; an empty child
\* has the text None
IdTexts == Ids \cup {None}
SearchResponses == SeqsUpTo(IdTexts, MaxIds)

\* text of an element: None when the element is empty
ElementTexts == Texts \cup {None}

\* one PC-InfoData element: the text of its first PC-Urn_label and of its
\* first PC-InfoData_value_sval descendant, Absent when there is none
PCLabels    == {"IUPAC Name", "SMILES", "InChI", None, Absent}
PCInfoData  == [label : PCLabels, sval : ElementTexts \cup {Absent}]

\* one child of the root of a GetExtendedCompoundInfo response
CSTags      == {"SMILES", "CSID", "MolecularWeight", "CommonName", "InChI"}
CSChild     == [tag : CSTags, text : ElementTexts]

\* payloads served to a search that runs through a backend
PubChemFixtures ==
  { <<>>,
    <<[label |-> "IUPAC Name", sval |-> "v1"], [label |-> "SMILES", sval |-> "v2"]>>,
    <<[label |-> Absent, sval |-> "v1"]>> }
ChemSpiderFixtures ==
  { <<>>,
    <<[tag |-> "CSID", text |-> "v1"], [tag |-> "CommonName", text |-> "v2"]>> }

PubChemPayloads ==
  IF entry = "detail" THEN SeqsUpTo(PCInfoData, MaxProps) ELSE PubChemFixtures
ChemSpiderPayloads ==
  IF entry = "detail" THEN SeqsUpTo(CSChild, MaxProps) ELSE ChemSpiderFixtures

(***************************************************************************)
(* PubChem.getCompoundFromCID, lines 195-219: the loop over props.         *)
(* The result is [exc, value]: exc is "" when the loop ran to its end.     *)
(***************************************************************************)
RECURSIVE PubChem_parse(_, _)
PubChem_parse(compound, props) ==
  IF props = <<>> THEN [exc |-> "", value |-> compound]
  ELSE LET child == Head(props)
           label == child.label
           value == child.sval
       IN IF label = Absent
          THEN [exc |-> "AttributeError", value |-> compound]      \* label.text
          ELSE IF label \in {"IUPAC Name", "SMILES"} /\ value = Absent
          THEN [exc |-> "AttributeError", value |-> compound]      \* value.text
          ELSE LET c1 == IF label = "IUPAC Name"
                         THEN [compound EXCEPT !.name = value] ELSE compound
                   c2 == IF label = "SMILES"
                         THEN [c1 EXCEPT !.smiles = value] ELSE c1
               IN PubChem_parse(c2, Tail(props))

PubChem_getCompoundFromCID_fn(cid, props) ==
  PubChem_parse([Compound EXCEPT !.database = "PubChem", !.csid = cid], props)

(***************************************************************************)
(* ChemSpiderOD.getCompoundFromCSID, lines 263-288.                        *)
(***************************************************************************)
RECURSIVE ChemSpiderOD_parse(_, _)
ChemSpiderOD_parse(compound, children) ==
  IF children = <<>> THEN [exc |-> "", value |-> compound]
  ELSE LET tag  == Head(children).tag
           text == Head(children).text
           c == IF tag = "SMILES" THEN [compound EXCEPT !.smiles = text]
                ELSE IF tag = "CSID" THEN [compound EXCEPT !.csid = text]
                ELSE IF tag = "MolecularWeight" THEN [compound EXCEPT !.molWeight = text]
                ELSE IF tag = "CommonName" THEN [compound EXCEPT !.name = text]
                ELSE compound
       IN ChemSpiderOD_parse(c, Tail(children))

ChemSpiderOD_getCompoundFromCSID_fn(csid, children) ==
  ChemSpiderOD_parse([Compound EXCEPT !.database = "ChemSpider"], children)

(***************************************************************************)
(* Output format, lines 376-380 and 391-395                                *)
(***************************************************************************)
Rule == <<"---------">>

Block(compound) ==
  << Rule,
     <<"Database: ", Fmt(compound.database)>>,
     <<"Name:     ", Fmt(compound.name)>>,
     <<"CSID:     ", Fmt(compound.csid)>>,
     <<"SMILES:   ", Fmt(compound.smiles)>> >>

RECURSIVE Blocks(_)
Blocks(cs) == IF cs = <<>> THEN <<>> ELSE Block(Head(cs)) \o Blocks(Tail(cs))

Refusal == <<"The file already exist. I won't write any data.">>
OldContent == << <<"old">> >>

(***************************************************************************)
(* Initial states                                                          *)
(***************************************************************************)
NameList == <<"n1", "n2", "n3", "n4">>
NameArgs == {SubSeq(NameList, 1, k) : k \in 1..MaxNames}

Argvs ==
  [kind : {"GetoptError", "help", "list"}, names : {<<>>}, output : {None}, force : {FALSE}]
  \cup [kind : {"run"}, names : {<<>>}, output : {None}, force : {FALSE}]
  \cup [kind : {"run"}, names : NameArgs, output : {None, "out"}, force : BOOLEAN]

Files == {[exists |-> FALSE, content |-> <<>>], [exists |-> TRUE, content |-> OldContent]}

InitLocals ==
  /\ exc = ""
  /\ exitCode = NotExited
  /\ stdout = <<>>
  /\ nameIdx = 0
  /\ compounds = <<>>
  /\ overwrote = FALSE
  /\ acc = <<>>
  /\ results = <<>>
  /\ bcompounds = <<>>
  /\ payload = <<>>
  /\ response = <<>>
  /\ detailCalls = <<>>
  /\ ret = <<>>

\* python pyChemInfo.py <options>
InitMain ==
  /\ entry = "main"
  /\ argv \in Argvs
  /\ file \in Files
  /\ (argv.output = None => ~file.exists /\ ~argv.force)
  /\ pc = "main"
  /\ query = "" /\ first = FALSE /\ odbIdx = 0 /\ iter = <<>>
  /\ InitLocals

NoArgv == [kind |-> "", names |-> <<>>, output |-> None, force |-> FALSE]

\* ChemInfo().search(query, first)
InitSearch ==
  /\ entry = "search"
  /\ argv = NoArgv
  /\ file = [exists |-> FALSE, content |-> <<>>]
  /\ pc = "odb_loop"
  /\ query = "n1" /\ first \in BOOLEAN /\ odbIdx = 1 /\ iter = <<>>
  /\ InitLocals

\* PubChem().getCompoundFromCID(cid), ChemSpiderOD().getCompoundFromCSID(csid)
InitDetail ==
  /\ entry = "detail"
  /\ argv = NoArgv
  /\ file = [exists |-> FALSE, content |-> <<>>]
  /\ pc = "backend_iter"
  /\ query = "" /\ first = FALSE
  /\ odbIdx \in 1..Len(getOnlineDatabases)
  /\ \E cid \in Ids : iter = <<cid>>
  /\ InitLocals

Init == InitMain \/ InitSearch \/ InitDetail

odb == getOnlineDatabases[odbIdx]

(***************************************************************************)
(* An exception nobody catches: it unwinds every frame; under main the     *)
(* interpreter prints the traceback and exits with status 1.               *)
(***************************************************************************)
Raise(e) ==
  /\ exc' = e
  /\ pc' = "raised"
  /\ exitCode' = IF entry = "main" THEN 1 ELSE exitCode

\* urllib.request.urlopen / ET.parse raise inside a backend; no frame between
\* the request and the client has a handler (lines 168-171, 193-196, 247-250,
\* 270-273, 308, 366)
urlopen_swallowed(e) ==
  /\ exc' = e
  /\ pc' = "backend_iter"
  /\ exitCode' = exitCode

urlopen_raises(e) == Raise(e)

\* lines 182-183, 260-261: assert type(x) == str or type(x) == unicode for an
\* x that is no str: the second operand is evaluated, and unicode is no name
\* of Python 3
assert_str == "NameError: unicode"

Exit(code) ==
  /\ pc' = "exit"
  /\ exitCode' = code
  /\ exc' = exc

(***************************************************************************)
(* main(), lines 325-360: option parsing                                   *)
(***************************************************************************)
mainVars    == <<nameIdx, compounds, overwrote>>
searchVars  == <<query, first, odbIdx, acc, results>>
backendVars == <<iter, bcompounds, payload, response, detailCalls>>

main_getopt ==
  /\ entry = "main" /\ pc = "main"
  /\ \/ /\ argv.kind = "GetoptError"          \* lines 328-331: usage is not defined
        /\ stdout' = Append(stdout, <<"option not recognized">>)
        /\ Raise("NameError: usage")
     \/ /\ argv.kind = "help"                 \* lines 349-351: usage is not defined
        /\ stdout' = stdout
        /\ Raise("NameError: usage")
     \/ /\ argv.kind = "list"                 \* lines 342-346
        /\ stdout' = Append(stdout,
             <<"List of available Online Database Modules: ">> \o getOnlineDatabases)
        /\ Exit(0)
     \/ /\ argv.kind = "run" /\ argv.names = <<>>   \* lines 357-360
        /\ stdout' = Append(stdout, <<"You are pleased to specify one or more name(s).">>)
        /\ Exit(2)
     \/ /\ argv.kind = "run" /\ argv.names # <<>>
        /\ stdout' = stdout
        /\ pc' = "names_loop"
        /\ UNCHANGED <<exc, exitCode>>
  /\ UNCHANGED <<entry, argv, file, ret>>
  /\ UNCHANGED <<mainVars, searchVars, backendVars>>

(***************************************************************************)
(* main(), lines 364-366: the loop head and the call of ChemInfo.search    *)
(***************************************************************************)
main_loop ==
  /\ entry = "main" /\ pc = "names_loop"
  /\ IF nameIdx < Len(argv.names)
     THEN /\ nameIdx' = nameIdx + 1
          /\ query' = argv.names[nameIdx + 1]
          /\ first' = TRUE
          /\ acc' = <<>>                      \* line 305
          /\ odbIdx' = 1
          /\ results' = <<>>
          /\ pc' = "odb_loop"
     ELSE /\ pc' = "print"
          /\ UNCHANGED <<nameIdx, searchVars>>
  /\ UNCHANGED <<entry, argv, exc, exitCode, stdout, file, compounds, overwrote, ret>>
  /\ UNCHANGED backendVars

(***************************************************************************)
(* ChemInfo.search, lines 307-308: the next backend is instantiated and    *)
(* its search is called                                                    *)
(***************************************************************************)
ChemInfo_search_call ==
  /\ pc = "odb_loop"
  /\ odbIdx <= Len(getOnlineDatabases)
  /\ pc' = "backend_search"
  /\ UNCHANGED <<entry, argv, exc, exitCode, stdout, file, ret>>
  /\ UNCHANGED <<mainVars, searchVars, backendVars>>

(***************************************************************************)
(* PubChem.search, lines 161-174: the search request; root[::-1]           *)
(***************************************************************************)
PubChem_order_forward(ids) == ids

\* line 174: for child in root[::-1]
PubChem_order(ids) == Reverse(ids)

PubChem_search ==
  /\ pc = "backend_search" /\ odb = "PubChem"
  /\ \/ /\ \E e \in RemoteErrors : urlopen_raises(e)
        /\ UNCHANGED backendVars
     \/ /\ \E ids \in SearchResponses :
             /\ response' = ids
             /\ iter' = PubChem_order(ids)
        /\ bcompounds' = <<>>
        /\ detailCalls' = <<>>
        /\ payload' = <<>>
        /\ pc' = "backend_iter"
        /\ UNCHANGED <<exc, exitCode>>
  /\ UNCHANGED <<entry, argv, stdout, file, ret>>
  /\ UNCHANGED <<mainVars, searchVars>>

(***************************************************************************)
(* PubChem.search lines 174-176 with PubChem.getCompoundFromCID, lines     *)
(* 180-219: one iteration of the loop, which ends with break               *)
(***************************************************************************)
PubChem_getCompoundFromCID ==
  /\ pc = "backend_iter" /\ odb = "PubChem"
  /\ iter # <<>>
  /\ detailCalls' = Append(detailCalls, Head(iter))
  /\ \/ /\ Head(iter) = None
        /\ Raise(assert_str)
        /\ UNCHANGED <<iter, bcompounds, payload, ret>>
     \/ /\ Head(iter) # None
        /\ \E e \in RemoteErrors : urlopen_raises(e)
        /\ UNCHANGED <<iter, bcompounds, payload, ret>>
     \/ \E props \in PubChemPayloads :
          LET r == PubChem_getCompoundFromCID_fn(Head(iter), props)
          IN /\ Head(iter) # None
             /\ payload' = props
             /\ IF r.exc # ""
                THEN /\ Raise(r.exc)
                     /\ UNCHANGED <<iter, bcompounds, ret>>
                ELSE /\ UNCHANGED <<exc, exitCode>>
                     /\ IF entry = "detail"
                        THEN /\ ret' = <<r.value>>
                             /\ pc' = "returned"
                             /\ UNCHANGED <<iter, bcompounds>>
                        ELSE /\ bcompounds' = Append(bcompounds, r.value)
                             /\ iter' = <<>>            \* break
                             /\ pc' = "backend_iter"
                             /\ ret' = ret
  /\ UNCHANGED <<entry, argv, stdout, file, response>>
  /\ UNCHANGED <<mainVars, searchVars>>

(***************************************************************************)
(* ChemSpiderOD.search, lines 239-253: the search request                  *)
(***************************************************************************)
ChemSpiderOD_order_reversed(ids) == Reverse(ids)

\* line 253: for child in root
ChemSpiderOD_order(ids) == ids

ChemSpiderOD_search ==
  /\ pc = "backend_search" /\ odb = "ChemSpider"
  /\ \/ /\ \E e \in RemoteErrors : urlopen_raises(e)
        /\ UNCHANGED backendVars
     \/ /\ \E ids \in SearchResponses :
             /\ response' = ids
             /\ iter' = ChemSpiderOD_order(ids)
        /\ bcompounds' = <<>>
        /\ detailCalls' = <<>>
        /\ payload' = <<>>
        /\ pc' = "backend_iter"
        /\ UNCHANGED <<exc, exitCode>>
  /\ UNCHANGED <<entry, argv, stdout, file, ret>>
  /\ UNCHANGED <<mainVars, searchVars>>

(***************************************************************************)
(* ChemSpiderOD.search lines 253-254 with ChemSpiderOD.getCompoundFromCSID,*)
(* lines 258-288: one iteration of the loop                                *)
(***************************************************************************)
ChemSpiderOD_getCompoundFromCSID ==
  /\ pc = "backend_iter" /\ odb = "ChemSpider"
  /\ iter # <<>>
  /\ detailCalls' = Append(detailCalls, Head(iter))
  /\ \/ /\ Head(iter) = None
        /\ Raise(assert_str)
        /\ UNCHANGED <<iter, bcompounds, payload, ret>>
     \/ /\ Head(iter) # None
        /\ \E e \in RemoteErrors : urlopen_raises(e)
        /\ UNCHANGED <<iter, bcompounds, payload, ret>>
     \/ \E children \in ChemSpiderPayloads :
          LET r == ChemSpiderOD_getCompoundFromCSID_fn(Head(iter), children)
          IN /\ Head(iter) # None
             /\ payload' = children
             /\ UNCHANGED <<exc, exitCode>>
             /\ IF entry = "detail"
                THEN /\ ret' = <<r.value>>
                     /\ pc' = "returned"
                     /\ UNCHANGED <<iter, bcompounds>>
                ELSE /\ bcompounds' = Append(bcompounds, r.value)
                     /\ iter' = Tail(iter)
                     /\ pc' = "backend_iter"
                     /\ ret' = ret
  /\ UNCHANGED <<entry, argv, stdout, file, response>>
  /\ UNCHANGED <<mainVars, searchVars>>

(***************************************************************************)
(* ChemInfo.search, lines 308-312: the backend's search has returned its   *)
(* list (lines 178, 256); it is added to compounds.  The continue of line  *)
(* 312 is the last statement of the loop body: with or without it the loop *)
(* goes on to the next backend.                                            *)
(***************************************************************************)
ChemInfo_search_next(firstFlag, found, idx) ==
  IF firstFlag /\ Len(found) > 0
  THEN idx + 1        \* continue
  ELSE idx + 1        \* end of the loop body

ChemInfo_search_add_front(compounds_, found) == found \o compounds_

\* line 308: compounds += odb().search(query)
ChemInfo_search_add(compounds_, found) == compounds_ \o found

ChemInfo_search_accumulate ==
  /\ pc = "backend_iter" /\ entry # "detail"
  /\ iter = <<>>
  /\ acc' = ChemInfo_search_add(acc, bcompounds)
  /\ results' = Append(results, bcompounds)
  /\ odbIdx' = ChemInfo_search_next(first, acc', odbIdx)
  /\ bcompounds' = <<>>
  /\ payload' = <<>>
  /\ response' = <<>>
  /\ detailCalls' = <<>>
  /\ pc' = "odb_loop"
  /\ UNCHANGED <<entry, argv, exc, exitCode, stdout, file, ret, iter, query, first>>
  /\ UNCHANGED mainVars

(***************************************************************************)
(* ChemInfo.search, line 314                                               *)
(***************************************************************************)
ChemInfo_search_return ==
  /\ pc = "odb_loop"
  /\ odbIdx > Len(getOnlineDatabases)
  /\ ret' = acc
  /\ pc' = "returned"
  /\ UNCHANGED <<entry, argv, exc, exitCode, stdout, file>>
  /\ UNCHANGED <<mainVars, searchVars, backendVars>>

(***************************************************************************)
(* main(), lines 366-371: the result is assigned to compounds; for an      *)
(* empty result the message is formatted with odb.name(), and main has no  *)
(* variable odb                                                            *)
(***************************************************************************)
main_store_extend(old, found) == old \o found

\* line 366: compounds = chemInfo.search(name, True)
main_store(old, found) == found

main_assign ==
  /\ entry = "main" /\ pc = "returned"
  /\ compounds' = main_store(compounds, ret)
  /\ overwrote' = (overwrote \/ (nameIdx > 1 /\ compounds # ret))
  /\ IF Len(ret) < 1
     THEN Raise("NameError: odb")
     ELSE /\ pc' = "names_loop"
          /\ UNCHANGED <<exc, exitCode>>
  /\ UNCHANGED <<entry, argv, stdout, file, nameIdx, ret>>
  /\ UNCHANGED <<searchVars, backendVars>>

(***************************************************************************)
(* main(), lines 373-381                                                   *)
(***************************************************************************)
main_print ==
  /\ entry = "main" /\ pc = "print"
  /\ stdout' = stdout \o << <<"">> >> \o Blocks(compounds) \o << Rule, <<"">> >>
  /\ pc' = "output"
  /\ UNCHANGED <<entry, argv, exc, exitCode, file, ret>>
  /\ UNCHANGED <<mainVars, searchVars, backendVars>>

(***************************************************************************)
(* main(), lines 383-397                                                   *)
(***************************************************************************)
main_refuses_forced(exists, force) == exists /\ force

\* line 385: os.path.exists(output) is True and forceOutput is False
main_refuses(exists, force) == exists /\ ~force

\* lines 388-397: what the file holds after the write
FileText(cs) == Append(Blocks(cs), Rule)

main_output ==
  /\ entry = "main" /\ pc = "output"
  /\ IF argv.output # None
     THEN IF main_refuses(file.exists, argv.force)
          THEN /\ stdout' = Append(stdout, Refusal)
               /\ file' = file
          ELSE /\ file' = [exists |-> TRUE, content |-> FileText(compounds)]
               /\ stdout' = stdout
     ELSE UNCHANGED <<stdout, file>>
  /\ Exit(0)
  /\ UNCHANGED <<entry, argv, ret>>
  /\ UNCHANGED <<mainVars, searchVars, backendVars>>

Next ==
  \/ main_getopt
  \/ main_loop
  \/ ChemInfo_search_call
  \/ PubChem_search
  \/ PubChem_getCompoundFromCID
  \/ ChemSpiderOD_search
  \/ ChemSpiderOD_getCompoundFromCSID
  \/ ChemInfo_search_accumulate
  \/ ChemInfo_search_return
  \/ main_assign
  \/ main_print
  \/ main_output

Spec == Init /\ [][Next]_vars

(***************************************************************************)
(* Properties                                                              *)
(***************************************************************************)
NumBackends == Len(getOnlineDatabases)

InBackend(db) ==
  /\ entry # "detail"
  /\ odbIdx \in 1..NumBackends
  /\ odb = db

\* C1: when ChemInfo.search returns (no backend failed), the returned list is
\* the concatenation of what the backends returned, in registry order: its
\* length is the sum of the backends' result lengths, every backend's records
\* are contiguous and in the order the backend returned them.
C1_SearchConcatenates ==
  (entry # "detail" /\ pc = "returned") =>
     /\ Len(results) = NumBackends
     /\ ret = Flatten(results)
     /\ \A i \in 1..Len(results) : \A j \in 1..Len(results[i]) :
          results[i][j].database = getOnlineDatabases[i]

C1_Witness ==
  /\ entry = "search" /\ pc = "returned" /\ ~first
  /\ Len(results) = 2
  /\ Len(results[1]) = 1 /\ Len(results[2]) = 2
  /\ results[2][1] # results[2][2]
  /\ Len(ret) = 3

\* C2: with first = TRUE no backend's search is invoked once the accumulated
\* list is non-empty.
C2_StopsAtFirstHit ==
  (entry # "detail" /\ first /\ pc = "backend_search") => acc = <<>>

C4_PubChemLastId ==
  (InBackend("PubChem") /\ pc \in {"backend_iter", "raised"}) =>
     /\ detailCalls = <<>> \/ (response # <<>> /\ detailCalls = <<Last(response)>>)
     /\ (pc = "backend_iter" /\ iter = <<>>) =>
          IF response = <<>>
          THEN detailCalls = <<>> /\ bcompounds = <<>>
          ELSE /\ detailCalls = <<Last(response)>>
               /\ Len(bcompounds) = 1
               /\ bcompounds[1].csid = Last(response)

C4_Witness ==
  /\ InBackend("PubChem") /\ pc = "backend_iter" /\ iter = <<>>
  /\ Len(response) = 2 /\ response[1] # response[2]
  /\ detailCalls = <<response[2]>>
  /\ Len(bcompounds) = 1

\* C5: ChemSpiderOD.search requests details for every id of the search
\* response, one request per id in response order, and appends one record
\* per request; when its loop has ended it holds exactly n records for a
\* response of n ids (none, and no request, for n = 0).
C5_ChemSpiderAllIds ==
  (InBackend("ChemSpider") /\ pc \in {"backend_iter", "raised"}) =>
     /\ Len(detailCalls) <= Len(response)
     /\ detailCalls = SubSeq(response, 1, Len(detailCalls))
     /\ pc = "backend_iter" =>
          /\ Len(bcompounds) = Len(detailCalls)
          /\ detailCalls \o iter = response
          /\ detailCalls # <<>> =>
               Last(bcompounds) =
                 ChemSpiderOD_getCompoundFromCSID_fn(Last(detailCalls), payload).value
          /\ iter = <<>> => (detailCalls = response /\ Len(bcompounds) = Len(response))

C5_Witness ==
  /\ InBackend("ChemSpider") /\ pc = "backend_iter" /\ iter = <<>>
  /\ Len(response) = 2 /\ response[1] # response[2]
  /\ detailCalls = response
  /\ Len(bcompounds) = 2 /\ bcompounds[1] # bcompounds[2]

\* the non-empty values the payload pairs with a key; a field with no such
\* value is expected to be the empty string
ExpectedValues(pairs) == IF pairs = {} THEN {""} ELSE pairs

PubChemValues(props, label) ==
  ExpectedValues({props[i].sval : i \in {j \in 1..Len(props) :
     props[j].label = label /\ props[j].sval \notin {None, Absent}}})

ChemSpiderValues(children, tag) ==
  ExpectedValues({children[i].text : i \in {j \in 1..Len(children) :
     children[j].tag = tag /\ children[j].text # None}})

\* C6: the record a detail call returns is the projection of the payload:
\* database names the backend, every mapped field holds a value the payload
\* pairs with its tag or label, and a field with no such value (none, or an
\* empty one) is the empty string.
C6_ExactProjection ==
  (entry = "detail" /\ pc = "returned") =>
     LET c == ret[1] IN
     /\ c.imageUrl = "" /\ c.formula = ""
     /\ IF odb = "ChemSpider"
        THEN /\ c.database = "ChemSpider"
             /\ c.smiles \in ChemSpiderValues(payload, "SMILES")
             /\ c.csid \in ChemSpiderValues(payload, "CSID")
             /\ c.molWeight \in ChemSpiderValues(payload, "MolecularWeight")
             /\ c.name \in ChemSpiderValues(payload, "CommonName")
        ELSE /\ c.database = "PubChem"
             /\ c.csid = iter[1]
             /\ c.molWeight = ""
             /\ c.name \in PubChemValues(payload, "IUPAC Name")
             /\ c.smiles \in PubChemValues(payload, "SMILES")

\* C7: whatever the detail payload, the detail step does not fail: no
\* exception other than a remote error leaves a backend.
C7_MalformedNeverFails ==
  ~(pc = "raised" /\ exc = "AttributeError")

\* C8: in main, a name whose search returned no compounds is not an error:
\* an informational line naming the search term is printed and the run does
\* not end abnormally (the search itself raised nothing).
C8_NoResultIsInformational ==
  (entry = "main" /\ nameIdx >= 1 /\ ret = <<>> /\ compounds = <<>>
     /\ pc \in {"names_loop", "print", "output", "exit", "raised"}
     /\ exc \in {"", "NameError: odb"}) =>
       /\ exitCode \in {NotExited, 0}
       /\ \E i \in 1..Len(stdout) :
            \E j \in 1..Len(stdout[i]) : stdout[i][j] = argv.names[nameIdx]

\* C9: the file at the output path changes only in the output step, only
\* when an output path was given and the file does not exist or force is
\* set, and then holds the record blocks; when the file exists and force is
\* not set it is left as it is and the refusal is printed.
C9_NoOverwriteWithoutForce ==
  [][ /\ (file.exists /\ ~argv.force) => file' = file
      /\ file' # file =>
           /\ pc = "output" /\ argv.output # None
           /\ file' = [exists |-> TRUE, content |-> FileText(compounds)]
      /\ (pc = "output" /\ argv.output # None /\ file.exists /\ ~argv.force) =>
           stdout' = Append(stdout, Refusal)
      /\ (pc = "output" /\ argv.output # None /\ (~file.exists \/ argv.force)) =>
           file' = [exists |-> TRUE, content |-> FileText(compounds)]
    ]_vars

C9_Witness ==
  /\ entry = "main" /\ pc = "exit" /\ exitCode = 0
  /\ argv.output # None /\ ~argv.force
  /\ file = [exists |-> TRUE, content |-> OldContent]
  /\ compounds # <<>>
  /\ Last(stdout) = Refusal

\* what main prints for a list of records (lines 373-381)
Printed(cs) == << <<"">> >> \o Blocks(cs) \o << Rule, <<"">> >>

\* C10: once main has printed, the names are exhausted and what was printed
\* (and written to the file, if it was written) are the records of the
\* search for the last name and nothing else.
C10_LastNameOnly ==
  (entry = "main" /\ argv.kind = "run" /\ argv.names # <<>>
     /\ (pc = "output" \/ (pc = "exit" /\ exitCode = 0))) =>
       /\ nameIdx = Len(argv.names)
       /\ query = argv.names[Len(argv.names)]
       /\ stdout \in {Printed(ret), Append(Printed(ret), Refusal)}
       /\ (pc = "exit" /\ argv.output # None /\ ~(file.exists /\ file.content = OldContent)) =>
            file.content = FileText(ret)

C10_Witness ==
  /\ entry = "main" /\ pc = "exit" /\ exitCode = 0
  /\ Len(argv.names) = 2
  /\ overwrote
  /\ argv.output # None
  /\ file.content = FileText(ret)

====
